---- MODULE Spec2Model ----
(***************************************************************************)
(* A model of gotypist-stats (src/gotypist_stats/__main__.py, report.py,   *)
(* helper.py): the parser read_stats/_to_datetime, the quantile estimator  *)
(* quantiles_38, the five report generators and the run main().            *)
(*                                                                         *)
(* Conventions.                                                            *)
(*  - A Python exception is the value [ok |-> FALSE, err |-> <name>].      *)
(*  - A dict is a sequence of <<key, value>> pairs in insertion order      *)
(*    (the iteration order of a Python dict).                              *)
(*  - A float that the code only adds, compares and divides is kept as an  *)
(*    exact rational: cps values are integers, a quantile is its numerator *)
(*    over n = 4, the hitmap median is kept doubled.                       *)
(*  - A date is its proleptic Gregorian ordinal (date.toordinal()).        *)
(*  - Glyphs are written in ASCII: see Char and _box_plot.                 *)
(***************************************************************************)
EXTENDS Integers, Sequences, FiniteSets

VARIABLES
    lines,      \* the stats file: the sequence of its lines
    today,      \* date.today(), read once by main
    pos,        \* index of the next line read_stats reads
    stats,      \* list(read_stats(...)): the records retained so far
    pc,         \* where the run is: "read", "reports", "done", "aborted", "idle"
    todo,       \* the report generators still to be called, in call order
    reports,    \* the reports built so far
    printed,    \* the reports printed so far
    err,        \* the exception that ended the run, or "none"
    data,       \* the argument of a call of quantiles_38
    q_out,      \* what that call returned or raised
    iso,        \* the argument of a call of _to_datetime
    dt_out,     \* what that call returned or raised
    box,        \* the arguments of a call of _box_plot
    plot_out    \* what that call returned

vars == <<lines, today, pos, stats, pc, todo, reports, printed, err,
          data, q_out, iso, dt_out, box, plot_out>>

----------------------------------------------------------------------------
(* Bounds of the model *)

MaxLines == 2
MaxRecs == 3
MaxCpsRecs == 4
MaxData == 4
MaxVal == 3
MaxCol == 7

----------------------------------------------------------------------------
(* Generic helpers *)

Raise(e) == [ok |-> FALSE, err |-> e]
Return(v) == [ok |-> TRUE, value |-> v]

Range(s) == {s[i] : i \in 1..Len(s)}

RECURSIVE SumSeq(_)
SumSeq(s) == IF s = <<>> THEN 0 ELSE Head(s) + SumSeq(Tail(s))

SeqsUpTo(S, n) == UNION {[1..k -> S] : k \in 0..n}

MinOf(s) == CHOOSE x \in Range(s) : \A y \in Range(s) : x <= y
MaxOf(s) == CHOOSE x \in Range(s) : \A y \in Range(s) : x >= y

\* int(x) of a rational num/den, den > 0: truncation toward zero
Trunc(num, den) == IF num >= 0 THEN num \div den ELSE -((-num) \div den)

\* the nearest integer to num/den (num >= 0, den > 0), ties to even: what the
\* 'f' format presentation does with the digits it drops
RoundHalfEven(num, den) ==
    LET q == num \div den
        r == num % den
    IN  IF 2 * r < den THEN q
        ELSE IF 2 * r > den THEN q + 1
        ELSE IF q % 2 = 0 THEN q ELSE q + 1

\* sorted(s) of a sequence of numbers
RECURSIVE InsertAsc(_, _)
InsertAsc(x, s) ==
    IF s = <<>> THEN <<x>>
    ELSE IF x < Head(s) THEN <<x>> \o s
    ELSE <<Head(s)>> \o InsertAsc(x, Tail(s))

RECURSIVE Sorted(_)
Sorted(s) ==
    IF s = <<>> THEN <<>>
    ELSE InsertAsc(s[Len(s)], Sorted(SubSeq(s, 1, Len(s) - 1)))

\* sorted(s, key=..., reverse=True) of a sequence of <<key, item>> pairs:
\* descending by key, and stable (equal keys keep their input order)
RECURSIVE InsertDesc(_, _)
InsertDesc(x, s) ==
    IF s = <<>> THEN <<x>>
    ELSE IF x[1] > Head(s)[1] THEN <<x>> \o s
    ELSE <<Head(s)>> \o InsertDesc(x, Tail(s))

RECURSIVE SortedReverseUnstable(_)
SortedReverseUnstable(s) ==
    IF s = <<>> THEN <<>>
    ELSE InsertDesc(Head(s), SortedReverseUnstable(Tail(s)))

RECURSIVE SortedReverse(_)
SortedReverse(s) ==
    IF s = <<>> THEN <<>>
    ELSE InsertDesc(s[Len(s)], SortedReverse(SubSeq(s, 1, Len(s) - 1)))

\* dict[key] += 1 on a defaultdict(int)
DictHas(d, k) == \E i \in 1..Len(d) : d[i][1] = k
DictIndex(d, k) == CHOOSE i \in 1..Len(d) : d[i][1] = k
DictGet(d, k, default) == IF DictHas(d, k) THEN d[DictIndex(d, k)][2] ELSE default
DictSet(d, k, v) ==
    IF DictHas(d, k) THEN [d EXCEPT ![DictIndex(d, k)] = <<k, v>>]
    ELSE Append(d, <<k, v>>)
DictValues(d) == [i \in 1..Len(d) |-> d[i][2]]

----------------------------------------------------------------------------
(* Dates and instants (datetime.date, datetime.datetime, timedelta) *)

IsLeap(y) == y % 4 = 0 /\ (y % 100 # 0 \/ y % 400 = 0)

DaysBeforeMonth(y, m) ==
    <<0, 31, 59, 90, 120, 151, 181, 212, 243, 273, 304, 334>>[m]
    + (IF m > 2 /\ IsLeap(y) THEN 1 ELSE 0)

\* date(y, m, d).toordinal(): day 1 is 0001-01-01, a Monday
toordinal(y, m, d) ==
    LET p == y - 1
    IN  p * 365 + p \div 4 - p \div 100 + p \div 400 + DaysBeforeMonth(y, m) + d

\* date.weekday() of an ordinal: Monday is 0
weekday(ord) == (ord + 6) % 7

\* datetime.date() of an instant, as an ordinal: the wall-clock date, the
\* offset is not applied
DateOf(t) == toordinal(t.year, t.month, t.day)

\* a timedelta is kept as Python keeps it: days, seconds in 0..86399 and
\* microseconds in 0..999999
timedelta(days, seconds, microseconds) ==
    LET us == microseconds % 1000000
        s1 == seconds + (microseconds - us) \div 1000000
        s == s1 % 86400
    IN  [days |-> days + (s1 - s) \div 86400, seconds |-> s, microseconds |-> us]

\* (a - b) of two aware datetimes: the offsets are applied
TimeDiff(a, b) ==
    timedelta(DateOf(a) - DateOf(b),
              (a.second - a.utcoffset * 60) - (b.second - b.utcoffset * 60),
              a.microsecond - b.microsecond)

TimeAdd(x, y) ==
    timedelta(x.days + y.days, x.seconds + y.seconds, x.microseconds + y.microseconds)

RECURSIVE SumDeltas(_)
SumDeltas(s) ==
    IF s = <<>> THEN timedelta(0, 0, 0)
    ELSE TimeAdd(SumDeltas(SubSeq(s, 1, Len(s) - 1)), s[Len(s)])

----------------------------------------------------------------------------
(* helper.py: quantiles_38.  A result is the sequence of the numerators of *)
(* the interpolated values over n: the value is result[i] / n.            *)

\* delta taken from the position before it is clamped
quantiles_38_DeltaBeforeClamp(d, n, method) ==
    IF n < 1 THEN Raise("StatisticsError")
    ELSE LET sd == Sorted(d)
             ld == Len(sd)
         IN  IF ld < 2 THEN Raise("StatisticsError")
             ELSE IF method = "inclusive" THEN
                 LET m == ld - 1
                 IN  Return([i \in 1..(n - 1) |->
                        LET j == (i * m) \div n
                            delta == i * m - j * n
                        IN  sd[j + 1] * (n - delta) + sd[j + 2] * delta])
             ELSE IF method = "exclusive" THEN
                 LET m == ld + 1
                 IN  Return([i \in 1..(n - 1) |->
                        LET j0 == (i * m) \div n
                            j == IF j0 < 1 THEN 1
                                 ELSE IF j0 > ld - 1 THEN ld - 1 ELSE j0
                            delta == i * m - j0 * n
                        IN  sd[j] * (n - delta) + sd[j + 1] * delta])
             ELSE Raise("ValueError")

\* data is 0-indexed in the code: data[j] there is sd[j + 1] here
quantiles_38(d, n, method) ==
    IF n < 1 THEN Raise("StatisticsError")
    ELSE LET sd == Sorted(d)
             ld == Len(sd)
         IN  IF ld < 2 THEN Raise("StatisticsError")
             ELSE IF method = "inclusive" THEN
                 LET m == ld - 1
                 IN  Return([i \in 1..(n - 1) |->
                        LET j == (i * m) \div n
                            delta == i * m - j * n
                        IN  sd[j + 1] * (n - delta) + sd[j + 2] * delta])
             ELSE IF method = "exclusive" THEN
                 LET m == ld + 1
                 IN  Return([i \in 1..(n - 1) |->
                        LET j0 == (i * m) \div n
                            j == IF j0 < 1 THEN 1
                                 ELSE IF j0 > ld - 1 THEN ld - 1 ELSE j0
                            delta == i * m - j * n
                        IN  sd[j] * (n - delta) + sd[j + 1] * delta])
             ELSE Raise("ValueError")

----------------------------------------------------------------------------
(* __main__.py: _to_datetime.  A timestamp string is kept as its parts:    *)
(*   year-month-dayThh:mm:ss  .  frac  sep  sign hh [:] mm                 *)
(* frac is the sequence of the fraction's digits, sep is what stands       *)
(* between the fraction and the offset ("" in the input), colon says       *)
(* whether the offset is written with a colon.                             *)

\* re.sub(r"([\d\-T:]{19}\.\d{6})\d*([+\-]\d{2}):(\d{2})", "\\1|\\2\\3", iso):
\* the pattern needs six digits after the dot; without them nothing matches
\* and the string is returned unchanged
re_sub(s) ==
    IF Len(s.frac) >= 6 /\ s.sep = "" /\ s.colon
    THEN [s EXCEPT !.frac = SubSeq(s.frac, 1, 6), !.sep = "|", !.colon = FALSE]
    ELSE s

RECURSIVE DigitsValue(_)
DigitsValue(ds) ==
    IF ds = <<>> THEN 0 ELSE 10 * DigitsValue(SubSeq(ds, 1, Len(ds) - 1)) + ds[Len(ds)]

RECURSIVE Pow10(_)
Pow10(k) == IF k = 0 THEN 1 ELSE 10 * Pow10(k - 1)

\* datetime.strptime(s, "%Y-%m-%dT%H:%M:%S.%f|%z"): %f takes one to six
\* digits and pads them on the right, then the literal "|" must follow
strptime(s) ==
    IF Len(s.frac) < 1 \/ Len(s.frac) > 6 \/ s.sep # "|"
    THEN Raise("ValueError")
    ELSE Return([year |-> s.year, month |-> s.month, day |-> s.day,
                 second |-> s.second,
                 microsecond |-> DigitsValue(s.frac) * Pow10(6 - Len(s.frac)),
                 utcoffset |-> (IF s.sign = "-" THEN -1 ELSE 1) * (s.hh * 60 + s.mm)])

_to_datetime(s) == strptime(re_sub(s))

----------------------------------------------------------------------------
(* report.py: the records.  A Stat is                                      *)
(*   [text, started_at, finished_at, errors, typos, mode, cps, version];   *)
(* its fields seconds and wpm are read by no report and are left out.      *)
(* A Typo is the pair <<expected, actual>>.                                *)

Mode(v) ==
    IF v = 1 THEN Return("FAST")
    ELSE IF v = 2 THEN Return("SLOW")
    ELSE IF v = 3 THEN Return("NORMAL")
    ELSE Raise("ValueError")

Report(title, content) == [title |-> title, content |-> content]

\* _human_duration(delta).  The three forms are "{secs} seconds" (a whole
\* seconds and b microseconds), "{a} minutes {b}s" and "{a} hours {b}min".
_human_duration(delta) ==
    LET whole == delta.days * 86400 + delta.seconds
        us == delta.microseconds
        AtMost(limit) == whole < limit \/ (whole = limit /\ us = 0)
    IN  IF AtMost(120)
        THEN [form |-> "seconds", a |-> whole, b |-> us]
        ELSE IF AtMost(3600 * 2)
        THEN [form |-> "minutes", a |-> whole \div 60,
              b |-> RoundHalfEven((whole % 60) * 1000000 + us, 1000000)]
        ELSE [form |-> "hours", a |-> whole \div 3600, b |-> (whole % 3600) \div 60]

\* the conditions with the two bracket tests ahead of the median test
BoxGlyph_BracketsFirst(i, start, q25, med, q75, end) ==
    IF i < start THEN <<" ">>
    ELSE IF i = start THEN <<"[">>
    ELSE IF i = end THEN <<"]">>
    ELSE IF i = med THEN <<"M">>
    ELSE IF i >= q25 /\ i < med THEN <<"o">>
    ELSE IF i > med /\ i <= q75 THEN <<"o">>
    ELSE IF i > start /\ i < q25 THEN <<"-">>
    ELSE IF i > q75 /\ i < end THEN <<"-">>
    ELSE <<>>

\* the glyph _box_plot appends for column i, or nothing when no condition
\* holds.  " " is the blank, "M" the solid median marker, "[" and "]" the
\* brackets, "o" the hollow block, "-" the dash.
BoxGlyph(i, start, q25, med, q75, end) ==
    IF i < start THEN <<" ">>
    ELSE IF i = med THEN <<"M">>
    ELSE IF i = start THEN <<"[">>
    ELSE IF i = end THEN <<"]">>
    ELSE IF i >= q25 /\ i < med THEN <<"o">>
    ELSE IF i > med /\ i <= q75 THEN <<"o">>
    ELSE IF i > start /\ i < q25 THEN <<"-">>
    ELSE IF i > q75 /\ i < end THEN <<"-">>
    ELSE <<>>

RECURSIVE BoxPlotFrom(_, _, _, _, _, _)
BoxPlotFrom(i, start, q25, med, q75, end) ==
    IF i > end THEN <<>>
    ELSE BoxGlyph(i, start, q25, med, q75, end)
         \o BoxPlotFrom(i + 1, start, q25, med, q75, end)

_box_plot(start, q25, med, q75, end) == BoxPlotFrom(0, start, q25, med, q75, end)

----------------------------------------------------------------------------
(* report.py: hitmap *)

WindowDays == 182

\* the dict of lines 80-85: sessions per day, days before begin skipped
RECURSIVE HitmapCounts(_, _)
HitmapCounts(begin, ss) ==
    IF ss = <<>> THEN <<>>
    ELSE LET rest == HitmapCounts(begin, SubSeq(ss, 1, Len(ss) - 1))
             d == DateOf(ss[Len(ss)].started_at)
         IN  IF d < begin THEN rest
             ELSE DictSet(rest, d, DictGet(rest, d, 0) + 1)

\* statistics.median(values), doubled; raises on no value
median2(values) ==
    LET sv == Sorted(values)
        n == Len(sv)
    IN  IF n = 0 THEN Raise("StatisticsError")
        ELSE IF n % 2 = 1 THEN Return(2 * sv[(n + 1) \div 2])
        ELSE Return(sv[n \div 2] + sv[n \div 2 + 1])

first_monday(t) == (t - WindowDays) - weekday(t - WindowDays)
last_monday(t) == t - weekday(t)
nb_weeks(t) == 1 + (last_monday(t) - first_monday(t)) \div 7

\* the median over every day of the displayed window, the days without a
\* session counting as 0
hitmap_median_AllDays(t, ss) ==
    LET hm == HitmapCounts(t - WindowDays, ss)
        days == first_monday(t)..(first_monday(t) + 7 * nb_weeks(t) - 1)
        n == 7 * nb_weeks(t)
        AtMost(v) == Cardinality({d \in days : DictGet(hm, d, 0) <= v})
        Kth(k) == CHOOSE v \in {DictGet(hm, d, 0) : d \in days} :
                     /\ AtMost(v) >= k
                     /\ \A w \in {DictGet(hm, d, 0) : d \in days} : w < v => AtMost(w) < k
    IN  Return(IF n % 2 = 1 THEN 2 * Kth((n + 1) \div 2)
               ELSE Kth(n \div 2) + Kth(n \div 2 + 1))

\* med of line 87: the dict holds only the days that got a session
hitmap_median(t, ss) == median2(DictValues(HitmapCounts(t - WindowDays, ss)))

\* char of line 91, the threshold doubled: "▓▓" heavy, "▒▒" light, "░░" empty
Char(treshold2, v) ==
    IF 2 * v >= treshold2 THEN "heavy" ELSE IF v > 0 THEN "light" ELSE "empty"

hitmap(t, ss) ==
    LET hm == HitmapCounts(t - WindowDays, ss)
        med == hitmap_median(t, ss)
        session_count(week, day) == DictGet(hm, first_monday(t) + 7 * week + day, 0)
    IN  IF ~med.ok THEN med
        ELSE Return(Report("6 months hitmap",
                [wd \in 1..7 |->
                    [day |-> wd - 1,
                     cells |-> [w \in 1..nb_weeks(t) |->
                                  Char(med.value, session_count(w - 1, wd - 1))]]]))

----------------------------------------------------------------------------
(* report.py: training_time, typo_record, common_typos *)

training_time(ss) ==
    LET duration == SumDeltas([i \in 1..Len(ss) |->
                                 TimeDiff(ss[i].finished_at, ss[i].started_at)])
    IN  Return(Report("Overall stats", _human_duration(duration)))

Lower(name) ==
    IF name = "FAST" THEN "fast" ELSE IF name = "SLOW" THEN "slow" ELSE "normal"

\* the ascending sort read backwards: equal keys come out in reverse order
SortedByErrors_Reversed(ss) ==
    SortedReverseUnstable([i \in 1..Len(ss) |-> <<ss[i].errors, ss[i]>>])

\* sorted(stats, key=lambda s: s.errors, reverse=True)
SortedByErrors(ss) == SortedReverse([i \in 1..Len(ss) |-> <<ss[i].errors, ss[i]>>])

typo_record(ss) ==
    IF ss = <<>> THEN Raise("IndexError")
    ELSE LET worse == SortedByErrors(ss)[1][2]
         IN  Return(Report("Biggest failure",
                [was_typing |-> worse.text,
                 mode |-> Lower(worse.mode),
                 failed |-> worse.errors,
                 happened_on |-> <<worse.started_at.month, worse.started_at.year>>,
                 struggled_for |->
                    _human_duration(TimeDiff(worse.finished_at, worse.started_at))]))

\* the inner loop of lines 143-144 over one record's typos
RECURSIVE CountTypos(_, _)
CountTypos(d, ts) ==
    IF ts = <<>> THEN d
    ELSE CountTypos(DictSet(d, Head(ts), DictGet(d, Head(ts), 0) + 1), Tail(ts))

\* the loop of lines 141-145: <<typos, total>>
RECURSIVE TypoCounts(_)
TypoCounts(ss) ==
    IF ss = <<>> THEN <<(<<>>), 0>>
    ELSE LET rest == TypoCounts(SubSeq(ss, 1, Len(ss) - 1))
             stat == ss[Len(ss)]
         IN  IF stat.errors > 0
             THEN <<CountTypos(rest[1], stat.typos), rest[2] + Len(stat.typos)>>
             ELSE rest

TopTypos == 6

\* f"{count / total:.2%}": the percentage to two decimals, in hundredths of
\* a percent
Percent(count, total) == RoundHalfEven(10000 * count, total)

\* lines 147-162: the rows of the table, from the dict and the total
TyposTable(typos, total) ==
    LET sorted_typos == SortedReverse([i \in 1..Len(typos) |-> <<typos[i][2], typos[i][1]>>])
        shown == SubSeq(sorted_typos, 1, IF Len(sorted_typos) < TopTypos
                                         THEN Len(sorted_typos) ELSE TopTypos)
    IN  Return(Report("Most common typos",
            [i \in 1..Len(shown) |->
                [index |-> i,
                 expected |-> shown[i][2][1],
                 actual |-> shown[i][2][2],
                 count |-> shown[i][1],
                 percent |-> Percent(shown[i][1], total)]]))

\* the share taken against the displayed rows' own sum
common_typos_ShareOfShown(ss) ==
    LET typos == TypoCounts(ss)[1]
        counts == Sorted(DictValues(typos))
        n == Len(counts)
        top == SubSeq(counts, IF n > TopTypos THEN n - TopTypos + 1 ELSE 1, n)
    IN  TyposTable(typos, SumSeq(top))

common_typos(ss) == TyposTable(TypoCounts(ss)[1], TypoCounts(ss)[2])

----------------------------------------------------------------------------
(* report.py: cps_progress.  A point is the numerator of its value over 4. *)

\* the dict of lines 166-169: the cps of the SLOW records by (year, month)
RECURSIVE CpsGroups(_)
CpsGroups(ss) ==
    IF ss = <<>> THEN <<>>
    ELSE LET rest == CpsGroups(SubSeq(ss, 1, Len(ss) - 1))
             st == ss[Len(ss)]
             key == <<st.started_at.year, st.started_at.month>>
         IN  IF st.mode = "SLOW"
             THEN DictSet(rest, key, Append(DictGet(rest, key, <<>>), st.cps))
             ELSE rest

QuantileN == 4
screen_width == 30

\* one element of plot_input (lines 172-177), or the exception quantiles_38 raises
PlotInput(group) ==
    LET cps == group[2]
        q == quantiles_38(cps, QuantileN, "exclusive")
    IN  IF ~q.ok THEN q
        ELSE Return([year |-> group[1][1], month |-> group[1][2],
                     points |-> <<QuantileN * MinOf(cps)>> \o q.value
                                \o <<QuantileN * MaxOf(cps)>>,
                     count |-> Len(cps)])

Abs(x) == IF x < 0 THEN -x ELSE x

\* screen_pos (lines 183-184): int(width * float(value) / abs(max - min)),
\* value and global_max both numerators over 4
\* round(...) in place of int(...): the nearest column, ties to even
screen_pos_Rounded(global_max, value) ==
    IF value >= 0 THEN RoundHalfEven(screen_width * value, Abs(global_max - 0))
    ELSE -RoundHalfEven(screen_width * (-value), Abs(global_max - 0))

screen_pos(global_max, value) == Trunc(screen_width * value, Abs(global_max - 0))

cps_progress(ss) ==
    LET groups == CpsGroups(ss)
        inputs == [i \in 1..Len(groups) |-> PlotInput(groups[i])]
        failed == {i \in 1..Len(groups) : ~inputs[i].ok}
    IN  IF failed # {} THEN inputs[CHOOSE i \in failed : \A k \in failed : i <= k]
        ELSE IF groups = <<>> THEN Raise("ValueError")
        ELSE LET plot_input == [i \in 1..Len(groups) |-> inputs[i].value]
                 global_max == MaxOf([i \in 1..Len(groups) |-> plot_input[i].points[5]])
             IN  IF global_max = 0 THEN Raise("ZeroDivisionError")
                 ELSE Return(Report("Characters per second (slow mode)",
                        [i \in 1..Len(groups) |->
                            LET pt == plot_input[i].points
                            IN  [year |-> plot_input[i].year,
                                 month |-> plot_input[i].month,
                                 median |-> pt[3],
                                 plot |-> _box_plot(screen_pos(global_max, pt[1]),
                                                    screen_pos(global_max, pt[2]),
                                                    screen_pos(global_max, pt[3]),
                                                    screen_pos(global_max, pt[4]),
                                                    screen_pos(global_max, pt[5])),
                                 count |-> plot_input[i].count]]))

----------------------------------------------------------------------------
(* __main__.py: read_stats.  A line of the file is                         *)
(*   [json, keys, version, started_at, finished_at, mode, ...]             *)
(* json: "invalid" when json.loads raises on it, "array" when it decodes   *)
(* to something that is not an object, "object" otherwise; keys: the keys  *)
(* the object has; the other fields: the values under those keys.          *)

StatFields == {"text", "started_at", "finished_at", "errors", "typos", "mode",
               "seconds", "cps", "wpm", "version"}

SupportedVersion == 1

\* the body of the loop of read_stats on one line: an exception, a skip
\* (continue) or the Stat that is yielded
read_stats_SkipMalformed(l) ==
    IF l.json # "object" THEN [ok |-> TRUE, skip |-> TRUE]
    ELSE IF (IF "version" \in l.keys THEN l.version ELSE 0) # SupportedVersion
    THEN [ok |-> TRUE, skip |-> TRUE]
    ELSE IF ~(StatFields \subseteq l.keys) THEN [ok |-> TRUE, skip |-> TRUE]
    ELSE LET started == _to_datetime(l.started_at)
             finished == _to_datetime(l.finished_at)
             mode == Mode(l.mode + 1)
         IN  IF ~started.ok THEN started
             ELSE IF ~finished.ok THEN finished
             ELSE IF ~mode.ok THEN mode
             ELSE [ok |-> TRUE, skip |-> FALSE,
                   value |-> [text |-> l.text, started_at |-> started.value,
                              finished_at |-> finished.value, errors |-> l.errors,
                              typos |-> l.typos, mode |-> mode.value,
                              cps |-> l.cps, version |-> l.version]]

read_stats(l) ==
    IF l.json = "invalid" THEN Raise("JSONDecodeError")
    ELSE IF l.json # "object" THEN Raise("AttributeError")
    ELSE IF (IF "version" \in l.keys THEN l.version ELSE 0) # SupportedVersion
    THEN [ok |-> TRUE, skip |-> TRUE]
    ELSE IF "started_at" \notin l.keys THEN Raise("KeyError")
    ELSE LET started == _to_datetime(l.started_at)
         IN  IF ~started.ok THEN started
    ELSE IF "finished_at" \notin l.keys THEN Raise("KeyError")
    ELSE LET finished == _to_datetime(l.finished_at)
         IN  IF ~finished.ok THEN finished
    ELSE IF "mode" \notin l.keys THEN Raise("KeyError")
    ELSE LET mode == Mode(l.mode + 1)
         IN  IF ~mode.ok THEN mode
    ELSE IF "typos" \notin l.keys THEN Raise("KeyError")
    ELSE IF l.keys # StatFields THEN Raise("TypeError")
    ELSE [ok |-> TRUE, skip |-> FALSE,
          value |-> [text |-> l.text, started_at |-> started.value,
                     finished_at |-> finished.value, errors |-> l.errors,
                     typos |-> l.typos, mode |-> mode.value,
                     cps |-> l.cps, version |-> l.version]]

----------------------------------------------------------------------------
(* __main__.py: main.  The actions of a run. *)

AllReports == <<"hitmap", "training_time", "typo_record", "common_typos", "cps_progress">>

NoCall == <<>>
NoQuantileArgs == [d |-> <<>>, n |-> 0, method |-> ""]
NoIso == [year |-> 0, month |-> 0, day |-> 0, second |-> 0, frac |-> <<>>,
          sep |-> "", sign |-> "+", hh |-> 0, mm |-> 0, colon |-> TRUE]
NoBox == <<>>

\* list(read_stats(...)) takes the next line
ReadLine ==
    /\ pc = "read"
    /\ pos <= Len(lines)
    /\ LET r == read_stats(lines[pos])
       IN  IF ~r.ok
           THEN pc' = "aborted" /\ err' = r.err /\ UNCHANGED <<pos, stats>>
           ELSE /\ pos' = pos + 1
                /\ stats' = IF r.skip THEN stats ELSE Append(stats, r.value)
                /\ UNCHANGED <<pc, err>>
    /\ UNCHANGED <<lines, today, todo, reports, printed, data, q_out, iso, dt_out, box, plot_out>>

\* the file is exhausted: the list of reports is built next
EndOfFile ==
    /\ pc = "read"
    /\ pos > Len(lines)
    /\ pc' = "reports"
    /\ todo' = AllReports
    /\ UNCHANGED <<lines, today, pos, stats, reports, printed, err, data, q_out, iso, dt_out, box, plot_out>>

\* one element of the list of lines 59-65 is evaluated
RunReport(name, result) ==
    /\ pc = "reports"
    /\ todo # <<>>
    /\ Head(todo) = name
    /\ IF result.ok
       THEN reports' = Append(reports, result.value) /\ todo' = Tail(todo)
            /\ UNCHANGED <<pc, err>>
       ELSE pc' = "aborted" /\ err' = result.err /\ UNCHANGED <<reports, todo>>
    /\ UNCHANGED <<lines, today, pos, stats, printed, data, q_out, iso, dt_out, box, plot_out>>

Hitmap == RunReport("hitmap", hitmap(today, stats))
TrainingTime == RunReport("training_time", training_time(stats))
TypoRecord == RunReport("typo_record", typo_record(stats))
CommonTypos == RunReport("common_typos", common_typos(stats))
CpsProgress == RunReport("cps_progress", cps_progress(stats))

\* one turn of the loop of lines 59-67: a report is printed
PrintReport ==
    /\ pc = "reports"
    /\ todo = <<>>
    /\ Len(printed) < Len(reports)
    /\ printed' = Append(printed, reports[Len(printed) + 1])
    /\ pc' = IF Len(printed) + 1 = Len(reports) THEN "done" ELSE pc
    /\ UNCHANGED <<lines, today, pos, stats, todo, reports, err, data, q_out, iso, dt_out, box, plot_out>>

\* a call of quantiles_38
Quantiles ==
    /\ pc = "idle"
    /\ q_out = NoCall
    /\ data # NoQuantileArgs
    /\ q_out' = <<quantiles_38(data.d, data.n, data.method)>>
    /\ UNCHANGED <<lines, today, pos, stats, pc, todo, reports, printed, err, data, iso, dt_out, box, plot_out>>

\* a call of _to_datetime
ToDatetime ==
    /\ pc = "idle"
    /\ dt_out = NoCall
    /\ iso # NoIso
    /\ dt_out' = <<_to_datetime(iso)>>
    /\ UNCHANGED <<lines, today, pos, stats, pc, todo, reports, printed, err, data, q_out, iso, box, plot_out>>

\* a call of _box_plot
BoxPlot ==
    /\ pc = "idle"
    /\ plot_out = NoCall
    /\ box # NoBox
    /\ plot_out' = <<_box_plot(box[1], box[2], box[3], box[4], box[5])>>
    /\ UNCHANGED <<lines, today, pos, stats, pc, todo, reports, printed, err, data, q_out,
                   iso, dt_out, box>>

----------------------------------------------------------------------------
(* Inputs *)

At(y, m, d, sec) ==
    [year |-> y, month |-> m, day |-> d, second |-> sec, microsecond |-> 0,
     utcoffset |-> 0]

Stat(text, started_at, finished_at, errors, typos, mode, cps) ==
    [text |-> text, started_at |-> started_at, finished_at |-> finished_at,
     errors |-> errors, typos |-> typos, mode |-> mode, cps |-> cps,
     version |-> SupportedVersion]

Iso(y, m, d, sec, frac, sign, hh, mm) ==
    [year |-> y, month |-> m, day |-> d, second |-> sec, frac |-> frac,
     sep |-> "", sign |-> sign, hh |-> hh, mm |-> mm, colon |-> TRUE]

Digits == <<1, 2, 3, 4, 5, 6, 7, 8, 9>>
ZeroFive == <<0, 5, 0, 5, 0, 5, 0, 5, 0>>

\* timestamps as the producer writes them: 1 to 9 fractional digits
IsoSet ==
    {Iso(dm[1], dm[2], dm[3], dm[4], SubSeq(ds, 1, k), off[1], off[2], off[3]) :
        dm \in {<<2021, 3, 1, 36000>>, <<2020, 12, 31, 86399>>},
        ds \in {Digits, ZeroFive},
        k \in 1..9,
        off \in {<<"+", 0, 0>>, <<"+", 2, 0>>, <<"-", 5, 30>>}}

\* the lines of a stats file
LineSet ==
    {[json |-> j, keys |-> {}, version |-> 0, text |-> "",
      started_at |-> NoIso, finished_at |-> NoIso, errors |-> 0, typos |-> <<>>,
      mode |-> 0, cps |-> 0] : j \in {"invalid", "array"}}
    \cup
    {[json |-> "object",
      keys |-> (StatFields \ (IF v = 0 THEN {"version"} ELSE {})) \ miss,
      version |-> v, text |-> "abc",
      started_at |-> Iso(2021, 3, 3, 36000, SubSeq(Digits, 1, k), "+", 2, 0),
      finished_at |-> Iso(2021, 3, 3, 36090, SubSeq(Digits, 1, k), "+", 2, 0),
      errors |-> 1, typos |-> << <<"a", "b">> >>, mode |-> m, cps |-> 3] :
        v \in {0, 1, 2}, miss \in {{}, {"started_at"}, {"wpm"}},
        k \in {3, 7}, m \in {0, 1}}

Todays == {toordinal(2021, 3, 3), toordinal(2021, 3, 1)}

HitmapDates == {<<2020, 8, 30>>, <<2020, 8, 31>>, <<2020, 9, 2>>, <<2021, 2, 15>>,
                <<2021, 3, 3>>, <<2021, 3, 5>>}

HitmapStats ==
    {Stat("abc", At(d[1], d[2], d[3], 36000), At(d[1], d[2], d[3], 36060), 0, <<>>,
          "FAST", 3) : d \in HitmapDates}

RecordStats ==
    {Stat(x[1], At(2021, x[3], 1, 36000), At(2021, x[3], 1, 36000 + 100 * x[3]), e, <<>>,
          x[2], 3) :
        x \in {<<"abc", "FAST", 1>>, <<"xyz", "SLOW", 2>>}, e \in {0, 2, 5}}

Letters == <<"a", "b", "c", "d", "e", "f", "g", "h", "i">>
T(k) == <<Letters[k], Letters[k + 1]>>

TypoStats ==
    {Stat("abc", At(2021, 3, 1, 36000), At(2021, 3, 1, 36060), x[1], x[2], "FAST", 3) :
        x \in {<<3, <<T(1), T(1), T(2)>> >>,
               <<0, <<T(3)>> >>,
               <<7, <<T(1), T(2), T(3), T(4), T(5), T(6), T(7)>> >>,
               <<1, <<T(8)>> >>,
               <<2, <<>> >>,
               <<1, <<T(2)>> >>,
               <<1, <<T(3)>> >>,
               <<0, <<>> >>}}

CpsStats ==
    {Stat("abc", At(x[1], x[2], 1, 36000), At(x[1], x[2], 1, 36060), 0, <<>>, x[3], c) :
        x \in {<<2021, 1, "SLOW">>, <<2020, 12, "SLOW">>, <<2021, 1, "FAST">>},
        c \in {1, 2, 5}}

----------------------------------------------------------------------------
(* The specifications *)

\* main(): the file is read, the five reports are built in order and printed
Init ==
    /\ lines \in SeqsUpTo(LineSet, MaxLines)
    /\ today = toordinal(2021, 3, 3)
    /\ pos = 1
    /\ stats = <<>>
    /\ pc = "read"
    /\ todo = <<>>
    /\ reports = <<>>
    /\ printed = <<>>
    /\ err = "none"
    /\ data = NoQuantileArgs
    /\ q_out = NoCall
    /\ iso = NoIso
    /\ dt_out = NoCall
    /\ box = NoBox
    /\ plot_out = NoCall

Next ==
    \/ ReadLine
    \/ EndOfFile
    \/ Hitmap
    \/ TrainingTime
    \/ TypoRecord
    \/ CommonTypos
    \/ CpsProgress
    \/ PrintReport

Spec == Init /\ [][Next]_vars

\* one report generator called on a record list
InitReport(name, days, records, n) ==
    /\ lines = <<>>
    /\ today \in days
    /\ pos = 1
    /\ stats \in SeqsUpTo(records, n)
    /\ pc = "reports"
    /\ todo = <<name>>
    /\ reports = <<>>
    /\ printed = <<>>
    /\ err = "none"
    /\ data = NoQuantileArgs
    /\ q_out = NoCall
    /\ iso = NoIso
    /\ dt_out = NoCall
    /\ box = NoBox
    /\ plot_out = NoCall

InitHitmap == InitReport("hitmap", Todays, HitmapStats, MaxRecs)
SpecHitmap == InitHitmap /\ [][Hitmap]_vars

InitTypoRecord == InitReport("typo_record", {toordinal(2021, 3, 3)}, RecordStats, MaxRecs)
SpecTypoRecord == InitTypoRecord /\ [][TypoRecord]_vars

InitCommonTypos == InitReport("common_typos", {toordinal(2021, 3, 3)}, TypoStats, MaxRecs)
SpecCommonTypos == InitCommonTypos /\ [][CommonTypos]_vars

InitCpsProgress == InitReport("cps_progress", {toordinal(2021, 3, 3)}, CpsStats, MaxCpsRecs)
SpecCpsProgress == InitCpsProgress /\ [][CpsProgress]_vars

\* a call of a pure function
InitCall(args, isos) ==
    /\ lines = <<>>
    /\ today = toordinal(2021, 3, 3)
    /\ pos = 1
    /\ stats = <<>>
    /\ pc = "idle"
    /\ todo = <<>>
    /\ reports = <<>>
    /\ printed = <<>>
    /\ err = "none"
    /\ data \in args
    /\ q_out = NoCall
    /\ iso \in isos
    /\ dt_out = NoCall
    /\ box = NoBox
    /\ plot_out = NoCall

InitQuantiles ==
    InitCall({[d |-> d, n |-> n, method |-> m] :
                 d \in SeqsUpTo(0..MaxVal, MaxData), n \in {0, 1, QuantileN},
                 m \in {"exclusive", "inclusive"}},
             {NoIso})
SpecQuantiles == InitQuantiles /\ [][Quantiles]_vars

InitDatetime == InitCall({NoQuantileArgs}, IsoSet)
SpecDatetime == InitDatetime /\ [][ToDatetime]_vars

\* _box_plot called on five integer columns, ordered or not
BoxColumns == (0 - 1)..MaxCol
InitBoxPlot ==
    /\ lines = <<>>
    /\ today = toordinal(2021, 3, 3)
    /\ pos = 1
    /\ stats = <<>>
    /\ pc = "idle"
    /\ todo = <<>>
    /\ reports = <<>>
    /\ printed = <<>>
    /\ err = "none"
    /\ data = NoQuantileArgs
    /\ q_out = NoCall
    /\ iso = NoIso
    /\ dt_out = NoCall
    /\ box \in BoxColumns \X BoxColumns \X BoxColumns \X BoxColumns \X BoxColumns
    /\ plot_out = NoCall
SpecBoxPlot == InitBoxPlot /\ [][BoxPlot]_vars

----------------------------------------------------------------------------
(* Properties: hitmap *)

\* the generator was called and returned its report
Returned == pc = "reports" /\ todo = <<>> /\ Len(reports) = 1

begin == today - WindowDays
GridDays == first_monday(today)..(first_monday(today) + 7 * nb_weeks(today) - 1)

\* the cell the report shows for day d of the grid
Cell(d) ==
    reports[1].content[weekday(d) + 1].cells[(d - first_monday(today)) \div 7 + 1]

\* the sessions whose started_at date is d
SessionsOn(d) == Cardinality({i \in 1..Len(stats) : DateOf(stats[i].started_at) = d})

\* the k-th smallest of the values of the function c, and their median doubled
KthSmallest(c, k) ==
    CHOOSE v \in {c[d] : d \in DOMAIN c} :
        /\ Cardinality({d \in DOMAIN c : c[d] <= v}) >= k
        /\ \A w \in {c[d] : d \in DOMAIN c} :
              w < v => Cardinality({d \in DOMAIN c : c[d] <= w}) < k

Median2Over(c) ==
    LET n == Cardinality(DOMAIN c)
    IN  IF n % 2 = 1 THEN 2 * KthSmallest(c, (n + 1) \div 2)
        ELSE KthSmallest(c, n \div 2) + KthSmallest(c, n \div 2 + 1)

PracticedDays == {d \in {DateOf(stats[i].started_at) : i \in 1..Len(stats)} : d >= begin}

\* C1 as stated: the threshold between heavy and light is the median of the
\* daily counts over every day of the window, the days without a session
\* included
C1_MedianOverAllDays ==
    Returned =>
        \A d \in GridDays :
            (d >= begin /\ SessionsOn(d) > 0) =>
                Cell(d) = IF 2 * SessionsOn(d) >= Median2Over([x \in GridDays |-> SessionsOn(x)])
                          THEN "heavy" ELSE "light"

\* C1 amended: the threshold between heavy and light is the median of the
\* daily counts over the days, from today-182 on, that have at least one
\* session; the days without a session are not part of it
C1_MedianOverPracticedDays ==
    Returned =>
        \A d \in GridDays :
            (d >= begin /\ SessionsOn(d) > 0) =>
                Cell(d) = IF 2 * SessionsOn(d) >= Median2Over([x \in PracticedDays |-> SessionsOn(x)])
                          THEN "heavy" ELSE "light"

\* a hitmap with a light cell: a practiced day below the median of the
\* practiced days, in a window where most days have no session
C1_Witness ==
    /\ Returned
    /\ \E d \in GridDays : d >= begin /\ SessionsOn(d) > 0 /\ Cell(d) = "light"

\* C8 as stated: 7 lines of one cell per week of the rounded window, and the
\* cell of every day d of the rounded window is heavy, light or empty by the
\* number of sessions started on d against the median
C8_CellsOfRoundedWindow ==
    Returned =>
        /\ Len(reports[1].content) = 7
        /\ \A wd \in 1..7 :
              /\ reports[1].content[wd].day = wd - 1
              /\ Len(reports[1].content[wd].cells)
                    = (last_monday(today) - first_monday(today)) \div 7 + 1
        /\ weekday(first_monday(today)) = 0
        /\ begin \in first_monday(today)..(first_monday(today) + 6)
        /\ today \in last_monday(today)..(last_monday(today) + 6)
        /\ \A d \in GridDays :
              Cell(d) = IF SessionsOn(d) = 0 THEN "empty"
                        ELSE IF 2 * SessionsOn(d) >= hitmap_median(today, stats).value
                        THEN "heavy" ELSE "light"

----------------------------------------------------------------------------
(* Properties: the run *)

FileRead == pos > Len(lines)
RunEnded == pc \in {"done", "aborted"}

ZeroDuration == [form |-> "seconds", a |-> 0, b |-> 0]

\* C2 as stated: a run whose record set is empty after version filtering
\* builds the Training-Time report, showing a zero duration, and does so in
\* main, where hitmap is called first
C2_EmptyRunBuildsTrainingTime ==
    (FileRead /\ stats = <<>> /\ RunEnded) =>
        \E k \in 1..Len(reports) :
            reports[k] = Report("Overall stats", ZeroDuration)

\* a line that is a JSON object with every field of a record, the version
\* possibly absent
StructurallyValid(l) ==
    l.json = "object" /\ (StatFields \ {"version"}) \subseteq l.keys

HasVersion1(l) == "version" \in l.keys /\ l.version = SupportedVersion

\* the lines of version 1, in file order
RECURSIVE Version1Lines(_)
Version1Lines(ls) ==
    IF ls = <<>> THEN <<>>
    ELSE (IF HasVersion1(Head(ls)) THEN <<Head(ls)>> ELSE <<>>) \o Version1Lines(Tail(ls))

\* record r is the record of line l
RecordOf(r, l) ==
    /\ r.text = l.text /\ r.errors = l.errors /\ r.typos = l.typos /\ r.cps = l.cps
    /\ r.mode = <<"FAST", "SLOW", "NORMAL">>[l.mode + 1]
    /\ r.started_at.second = l.started_at.second
    /\ r.finished_at.second = l.finished_at.second

\* C4 as stated: on structurally valid lines read_stats raises nothing and
\* yields exactly the lines of version 1, in file order
C4_YieldsVersion1Lines ==
    (\A i \in 1..Len(lines) : StructurallyValid(lines[i])) =>
        /\ (pc = "aborted" => FileRead)
        /\ FileRead =>
              /\ Len(stats) = Len(Version1Lines(lines))
              /\ \A k \in 1..Len(stats) : RecordOf(stats[k], Version1Lines(lines)[k])

\* a line that is no valid payload or lacks a required field
Malformed(l) == l.json # "object" \/ ~((StatFields \ {"version"}) \subseteq l.keys)

\* a line that is no JSON object, or a line of version 1 that lacks a field
Fatal(l) == l.json # "object" \/ (HasVersion1(l) /\ ~(StatFields \subseteq l.keys))

\* C5 as stated: a malformed line, whatever its version tag, aborts the run
\* before any report is printed
C5_MalformedLineAborts ==
    (\E i \in 1..Len(lines) : Malformed(lines[i])) =>
        /\ pc \in {"read", "aborted"}
        /\ printed = <<>>

\* C5 amended: a line that is not a JSON object, or a line of version 1 that
\* lacks a required field, aborts the run before any report is built or
\* printed; a JSON object whose version is absent or not 1 is skipped, also
\* when it lacks required fields
C5_FatalLineAborts ==
    /\ (\E i \in 1..Len(lines) : Fatal(lines[i])) =>
          /\ pc \in {"read", "aborted"}
          /\ ~FileRead
          /\ reports = <<>> /\ printed = <<>>
    /\ (pc = "aborted" /\ ~FileRead) =>
          (lines[pos].json # "object" \/ HasVersion1(lines[pos]))
    /\ \A i \in 1..(pos - 1) : ~Fatal(lines[i])

\* the run aborted on a line of version 1 that lacks a field, after it had
\* skipped a line of another version that lacks one too
C5_Witness ==
    /\ pc = "aborted" /\ pos = 2
    /\ lines[1].json = "object" /\ ~HasVersion1(lines[1]) /\ Malformed(lines[1])
    /\ lines[2].json = "object" /\ HasVersion1(lines[2]) /\ Malformed(lines[2])

----------------------------------------------------------------------------
(* Properties: quantiles_38 and _to_datetime *)

QuartilesCalled ==
    /\ q_out # NoCall
    /\ data.n = QuantileN /\ data.method = "exclusive" /\ Len(data.d) >= 2

\* C3 as stated: for k >= 2 numbers the exclusive quartiles are 3 values,
\* each within [min(data), max(data)]
C3_QuartilesWithinRange ==
    QuartilesCalled =>
        /\ q_out[1].ok
        /\ Len(q_out[1].value) = 3
        /\ \A i \in 1..3 :
              /\ QuantileN * MinOf(data.d) <= q_out[1].value[i]
              /\ q_out[1].value[i] <= QuantileN * MaxOf(data.d)

\* C3 amended: for k >= 2 numbers the exclusive quartiles are 3 values; each
\* is within [min(data), max(data)] when k >= 3; for k = 2 they are
\* min - (max-min)/4, (min+max)/2 and max + (max-min)/4, so the first and the
\* third are outside the range unless the two numbers are equal
C3_QuartilesWithinRangeFromThree ==
    QuartilesCalled =>
        LET lo == MinOf(data.d)
            hi == MaxOf(data.d)
            q == q_out[1].value
        IN  /\ q_out[1].ok
            /\ Len(q) = 3
            /\ Len(data.d) >= 3 =>
                  \A i \in 1..3 : QuantileN * lo <= q[i] /\ q[i] <= QuantileN * hi
            /\ Len(data.d) = 2 =>
                  /\ q[1] = QuantileN * lo - (hi - lo)
                  /\ q[2] = 2 * (lo + hi)
                  /\ q[3] = QuantileN * hi + (hi - lo)

\* the quartiles of two different numbers
C3_Witness ==
    /\ QuartilesCalled
    /\ Len(data.d) = 2 /\ data.d[1] # data.d[2]
    /\ q_out[1].ok

\* the first six digits of the fraction, the missing ones being zeros
Microseconds(frac) ==
    DigitsValue([i \in 1..6 |-> IF i <= Len(frac) THEN frac[i] ELSE 0])

\* C9 as stated: _to_datetime succeeds on every timestamp with 1 to 9
\* fractional digits and a +HH:MM or -HH:MM offset, and returns its instant
\* with the fraction cut or padded to microseconds and the offset applied
C9_ParsesEveryFraction ==
    dt_out # NoCall =>
        /\ dt_out[1].ok
        /\ dt_out[1].value =
              [year |-> iso.year, month |-> iso.month, day |-> iso.day,
               second |-> iso.second, microsecond |-> Microseconds(iso.frac),
               utcoffset |-> (IF iso.sign = "-" THEN -1 ELSE 1) * (iso.hh * 60 + iso.mm)]

----------------------------------------------------------------------------
(* Properties: typo_record, common_typos, cps_progress *)

Called == Returned \/ pc = "aborted"

MaxErrors == MaxOf([i \in 1..Len(stats) |-> stats[i].errors])
FirstWorst == CHOOSE i \in 1..Len(stats) :
                 /\ stats[i].errors = MaxErrors
                 /\ \A k \in 1..(i - 1) : stats[k].errors # MaxErrors

\* C6: on a non-empty record list typo_record returns the report of a record
\* whose errors value is the maximum, and of the first such record in input
\* order when several share it
C6_FirstRecordWithMostErrors ==
    (Called /\ stats # <<>>) =>
        /\ Returned
        /\ reports[1].content.failed = MaxErrors
        /\ reports[1].content.was_typing = stats[FirstWorst].text
        /\ reports[1].content.mode = Lower(stats[FirstWorst].mode)
        /\ reports[1].content.happened_on
              = <<stats[FirstWorst].started_at.month, stats[FirstWorst].started_at.year>>
        /\ reports[1].content.struggled_for
              = _human_duration(TimeDiff(stats[FirstWorst].finished_at,
                                         stats[FirstWorst].started_at))

\* two different records share the maximum of errors, and a report came out
C6_Witness ==
    /\ Returned
    /\ \E i, k \in 1..Len(stats) :
          /\ i < k
          /\ stats[i].errors = MaxErrors /\ stats[k].errors = MaxErrors
          /\ stats[i].text # stats[k].text

\* the typo entries of the records with errors > 0, and their counts
Entries ==
    UNION {{<<i, k>> : k \in 1..Len(stats[i].typos)} :
              i \in {n \in 1..Len(stats) : stats[n].errors > 0}}
TypoAt(e) == stats[e[1]].typos[e[2]]
DistinctTypos == {TypoAt(e) : e \in Entries}
CountOf(t) == Cardinality({e \in Entries : TypoAt(e) = t})
TotalTypos == Cardinality(Entries)

Rows == reports[1].content
RowTypo(r) == <<r.expected, r.actual>>

\* what C7 says of the table apart from the sum of the shares: at most 6
\* rows, of distinct TypoSpecs, with their counts over the qualifying
\* records, the largest counts, in non-increasing order
TopSixByCount ==
    /\ Len(Rows) = (IF Cardinality(DistinctTypos) < 6 THEN Cardinality(DistinctTypos) ELSE 6)
    /\ \A i \in 1..Len(Rows) :
          /\ Rows[i].index = i
          /\ RowTypo(Rows[i]) \in DistinctTypos
          /\ Rows[i].count = CountOf(RowTypo(Rows[i]))
          /\ \A k \in 1..Len(Rows) : k # i => RowTypo(Rows[k]) # RowTypo(Rows[i])
          /\ i > 1 => Rows[i - 1].count >= Rows[i].count
          /\ \A t \in DistinctTypos :
                (\A k \in 1..Len(Rows) : RowTypo(Rows[k]) # t) => CountOf(t) <= Rows[i].count

\* C7 as stated: the displayed shares sum to 100% exactly when there are at
\* most 6 distinct TypoSpecs, and to strictly less when there are more
C7_SharesSumTo100 ==
    Called =>
        /\ Returned
        /\ TopSixByCount
        /\ LET shown == SumSeq([i \in 1..Len(Rows) |-> Rows[i].percent])
           IN  IF Cardinality(DistinctTypos) <= 6 THEN shown = 10000 ELSE shown < 10000

\* C7 amended: each displayed share is count/total, total being the number
\* of typo entries of all qualifying records, printed rounded to a hundredth
\* of a percent; the exact shares of the displayed rows sum to 100% exactly
\* when there are 1 to 6 distinct TypoSpecs and to strictly less when there
\* are more than 6; with no typo entry the table is empty
C7_CountsSumToTotal ==
    Called =>
        /\ Returned
        /\ TopSixByCount
        /\ \A i \in 1..Len(Rows) :
              /\ 2 * TotalTypos * Rows[i].percent <= 20000 * Rows[i].count + TotalTypos
              /\ 2 * TotalTypos * Rows[i].percent >= 20000 * Rows[i].count - TotalTypos
        /\ LET shown == SumSeq([i \in 1..Len(Rows) |-> Rows[i].count])
           IN  IF Cardinality(DistinctTypos) <= 6 THEN shown = TotalTypos
               ELSE shown < TotalTypos
        /\ DistinctTypos = {} => Rows = <<>>

\* a table cut to 6 rows out of more distinct TypoSpecs, one of them counted
\* more than once
C7_Witness ==
    /\ Returned
    /\ Cardinality(DistinctTypos) > 6
    /\ Len(Rows) = 6
    /\ Rows[1].count > 1

\* the (year, month) of the SLOW records, and where each occurs first
SlowIndexes == {i \in 1..Len(stats) : stats[i].mode = "SLOW"}
MonthOf(i) == <<stats[i].started_at.year, stats[i].started_at.month>>
SlowMonths == {MonthOf(i) : i \in SlowIndexes}
FirstOccurrence(m) == CHOOSE i \in SlowIndexes :
                         MonthOf(i) = m /\ \A k \in SlowIndexes : MonthOf(k) = m => i <= k

\* C10 as stated: with at least one SLOW record cps_progress returns one row
\* per (year, month) of the SLOW records, in order of first occurrence, each
\* with the number of SLOW records of its month, whatever the size of a group
C10_OneRowPerMonth ==
    (Called /\ SlowIndexes # {}) =>
        /\ Returned
        /\ Len(Rows) = Cardinality(SlowMonths)
        /\ \A i \in 1..Len(Rows) :
              /\ <<Rows[i].year, Rows[i].month>> \in SlowMonths
              /\ Rows[i].count = Cardinality({k \in SlowIndexes :
                                    MonthOf(k) = <<Rows[i].year, Rows[i].month>>})
              /\ i > 1 => FirstOccurrence(<<Rows[i - 1].year, Rows[i - 1].month>>)
                            < FirstOccurrence(<<Rows[i].year, Rows[i].month>>)

----------------------------------------------------------------------------
(* Properties: the columns of cps_progress *)

\* the cps of the SLOW records of month m, in input order
SlowCps(m) ==
    LET InMonth(st) == st.mode = "SLOW" /\ <<st.started_at.year, st.started_at.month>> = m
        group == SelectSeq(stats, InMonth)
    IN  [i \in 1..Len(group) |-> group[i].cps]

\* [min, q1, median, q3, max] of month m, each as its numerator over 4
FiveNumbers(m) ==
    <<QuantileN * MinOf(SlowCps(m))>>
    \o quantiles_38(SlowCps(m), QuantileN, "exclusive").value
    \o <<QuantileN * MaxOf(SlowCps(m))>>

\* the largest of the groups' max values, as its numerator over 4
GlobalMax == QuantileN * MaxOf([i \in 1..Len(stats) |->
                                  IF stats[i].mode = "SLOW" THEN stats[i].cps ELSE 0])

Columns == (0 - 2 * screen_width)..(2 * screen_width)

\* round(30 * v / g): the nearest integer, a tie going to the even one
RoundedColumn(v, g) ==
    CHOOSE c \in Columns :
        LET off == 2 * (30 * v - c * g)
        IN  \/ (off < g /\ 0 - off < g)
            \/ ((off = g \/ 0 - off = g) /\ c % 2 = 0)

\* int(30 * v / g): the integer next to the quotient on the side of 0
TruncatedColumn(v, g) ==
    CHOOSE c \in Columns :
        IF v >= 0 THEN c * g <= 30 * v /\ 30 * v < (c + 1) * g
        ELSE (c - 1) * g < 30 * v /\ 30 * v <= c * g

RowPoints(i) == FiveNumbers(<<Rows[i].year, Rows[i].month>>)
RoundedColumns(i) ==
    LET pt == RowPoints(i)
        g == GlobalMax
    IN  [k \in 1..5 |-> RoundedColumn(pt[k], g)]
TruncatedColumns(i) ==
    LET pt == RowPoints(i)
        g == GlobalMax
    IN  [k \in 1..5 |-> TruncatedColumn(pt[k], g)]

----------------------------------------------------------------------------
(* Properties: the line _box_plot draws *)

\* the call of _box_plot has returned
Plotted == plot_out # NoCall

\* the columns of the call are ordered: 0 <= start <= q25 <= med <= q75 <= end
OrderedBox ==
    /\ box # NoBox
    /\ 0 <= box[1]
    /\ box[1] <= box[2]
    /\ box[2] <= box[3]
    /\ box[3] <= box[4]
    /\ box[4] <= box[5]

\* the glyph the stated rules give column i of an ordered call
StatedGlyph(i) ==
    IF i < box[1] THEN " "
    ELSE IF i = box[3] THEN "M"
    ELSE IF i = box[1] \/ i = box[5] THEN IF i = box[1] THEN "[" ELSE "]"
    ELSE IF (box[2] <= i /\ i < box[3]) \/ (box[3] < i /\ i <= box[4]) THEN "o"
    ELSE IF (box[1] < i /\ i < box[2]) \/ (box[4] < i /\ i < box[5]) THEN "-"
    ELSE "none"

\* C12: for ordered columns 0 <= start <= q25 <= med <= q75 <= end the line
\* has exactly end + 1 glyphs; column i is blank exactly when i < start, the
\* median marker exactly when i = med, a bracket at start and at end when
\* those are not med, a hollow block on the other columns of q25 <= i < med
\* and med < i <= q75, and a dash on the other columns of start < i < q25
\* and q75 < i < end.
C12_BoxPlotGlyphs ==
    (Plotted /\ OrderedBox) =>
        LET plot == plot_out[1] IN
        /\ Len(plot) = box[5] + 1
        /\ \A i \in 0..box[5] :
               /\ plot[i + 1] = StatedGlyph(i)
               /\ (plot[i + 1] = " ") <=> (i < box[1])
               /\ (plot[i + 1] = "M") <=> (i = box[3])
               /\ (i = box[1] /\ i # box[3]) => plot[i + 1] = "["
               /\ (i = box[5] /\ i # box[3] /\ i # box[1]) => plot[i + 1] = "]"

\* an ordered call whose line holds every kind of glyph
C12_Witness ==
    /\ Plotted
    /\ OrderedBox
    /\ {" ", "[", "-", "o", "M", "]"} \subseteq Range(plot_out[1])
    /\ box[1] < box[2]
    /\ box[4] < box[5]

====
